---- MODULE Spec2Model ----
(***************************************************************************)
(* ASH, an interactive shell (src/ash/src/main.rs).                        *)
(*                                                                         *)
(* The process state is the filesystem, the working directory, the HOME    *)
(* environment variable, the line editor's in-memory history and the       *)
(* history file.  Two specifications are given:                            *)
(*   Spec     the whole program: process start, the read loop of main,     *)
(*            shutdown, over the input lines of SessionLines;              *)
(*   SpecCmd  execute_command followed by handle_error, applied to every   *)
(*            command name and every argument list of at most MaxArgs      *)
(*            tokens.                                                      *)
(*                                                                         *)
(* A path is the sequence of its components below the root of the tree the *)
(* shell is started in.  An argument token is one file name, resolved      *)
(* against the working directory.  A file's content is "" (empty) or "x".  *)
(* A "locked" node is a regular file whose mode grants no access: it can   *)
(* be stat'ed, renamed and unlinked, but neither opened for reading nor    *)
(* for writing (the OS answers PermissionDenied).                          *)
(***************************************************************************)
EXTENDS Integers, Sequences, FiniteSets, TLC

VARIABLES
    fs,           \* the filesystem: the node at every path of Universe
    cwd,          \* the process's working directory
    home,         \* $HOME: a path, or Unset
    history,      \* rl's in-memory history, oldest entry first
    new_entries,  \* entries added to rl's history since it was loaded or saved
    histFile,     \* ~/.ash_history
    pc,           \* "off": no process; "prompt": at the top of main's loop;
                  \* "returned": execute_command is back (SpecCmd)
    runs,         \* processes started so far
    reads,        \* lines read so far, over all runs
    entered,      \* per run, the non-empty lines the user entered
    last          \* the last step taken (see Step)

vars == <<fs, cwd, home, history, new_entries, histFile, pc, runs, reads, entered, last>>

----------------------------------------------------------------------------
(* Bounds *)

\* longest argument list given to a command in SpecCmd
MaxArgs == 3
\* lines read over all runs of Spec
MaxReads == 3
\* process starts in Spec
MaxRuns == 2

\* rustyline's Config::default(): max_history_size
max_history_size == 100

\* the nodes the model tracks; every other path never exists
Universe == {<<>>, <<"d">>, <<"f">>, <<"-r">>, <<"d", "f">>}

\* the argument tokens of SpecCmd
Tokens == {"d", "f", "-r"}

Root == <<>>
Unset == <<"$unset">>

----------------------------------------------------------------------------
(* Filesystem *)

Absent == [kind |-> "absent", data |-> ""]
Dir == [kind |-> "dir", data |-> ""]
Locked == [kind |-> "locked", data |-> ""]
File(c) == [kind |-> "file", data |-> c]

Node(f, p) == IF p \in Universe THEN f[p] ELSE Absent

Exists(f, p) == Node(f, p).kind # "absent"

IsPrefix(p, q) == Len(p) <= Len(q) /\ SubSeq(q, 1, Len(p)) = p

\* the entries of directory p
Entries(f, p) == {q \in Universe : Len(q) = Len(p) + 1 /\ IsPrefix(p, q) /\ f[q].kind # "absent"}

\* fs::remove_dir_all / unlink: p and everything below it disappears
RemoveTree(f, p) == [q \in Universe |-> IF IsPrefix(p, q) THEN Absent ELSE f[q]]

\* a node is written at p
Put(f, p, n) == [q \in Universe |-> IF q = p THEN n ELSE f[q]]

\* fs::rename of an existing node s onto t (t absent or replaceable)
Rename(f, s, t) ==
    [q \in Universe |->
        IF IsPrefix(t, q) THEN Node(f, s \o SubSeq(q, Len(t) + 1, Len(q)))
        ELSE IF IsPrefix(s, q) THEN Absent
        ELSE f[q]]

\* the rename would place a node outside the tracked tree
RenameLeaves(f, s, t) ==
    \E q \in Universe : /\ IsPrefix(s, q)
                        /\ f[q].kind # "absent"
                        /\ (t \o SubSeq(q, Len(s) + 1, Len(q))) \notin Universe

----------------------------------------------------------------------------
(* ShellError and the result of a handler *)

Ok == [kind |-> "Ok", detail |-> ""]
Exit == [kind |-> "Exit", detail |-> ""]
Io(k) == [kind |-> "Io", detail |-> k]
InvalidArgument(m) == [kind |-> "InvalidArgument", detail |-> m]
MissingArguments(a) == [kind |-> "MissingArguments", detail |-> a]
CommandNotFound(c) == [kind |-> "CommandNotFound", detail |-> c]
FileNotFound(p) == [kind |-> "FileNotFound", detail |-> p]
IsDirectory(p) == [kind |-> "IsDirectory", detail |-> p]

ErrorKinds == {"Io", "InvalidArgument", "MissingArguments", "CommandNotFound",
               "FileNotFound", "IsDirectory"}

IsErr(r) == r.kind \in ErrorKinds

\* what a handler leaves behind: the filesystem, the working directory, its
\* result, what it printed, and whether it created a node outside Universe
Ret(f, c, r, o, b) == [fs |-> f, cwd |-> c, res |-> r, out |-> o, oob |-> b]

----------------------------------------------------------------------------
(* Command implementations.  args is the argument list, f the filesystem,  *)
(* c the working directory.                                                *)

Resolve(c, tok) == Append(c, tok)

\* cd without the existence check: the failure comes from set_current_dir
cd_unchecked(args, f, c, h) ==
    IF args = <<>> /\ h = Unset
    THEN Ret(f, c, InvalidArgument("Home directory not found"), <<>>, FALSE)
    ELSE LET path == IF args = <<>> THEN h ELSE Resolve(c, args[1])
         IN  IF ~Exists(f, path) THEN Ret(f, c, Io("NotFound"), <<>>, FALSE)
             ELSE IF Node(f, path).kind # "dir"
             THEN Ret(f, c, Io("NotADirectory"), <<>>, FALSE)
             ELSE Ret(f, path, Ok, <<>>, FALSE)

\* cd: the first argument, or $HOME (h) when there is none
cd(args, f, c, h) ==
    IF args = <<>> /\ h = Unset
    THEN Ret(f, c, InvalidArgument("Home directory not found"), <<>>, FALSE)
    ELSE LET path == IF args = <<>> THEN h ELSE Resolve(c, args[1])
             name == IF args = <<>> THEN "$HOME" ELSE args[1]
         IN  IF ~Exists(f, path)
             THEN Ret(f, c, FileNotFound(name), <<>>, FALSE)
             ELSE IF Node(f, path).kind # "dir"
             THEN Ret(f, c, Io("NotADirectory"), <<>>, FALSE)
             ELSE Ret(f, path, Ok, <<>>, FALSE)

help(f, c) == Ret(f, c, Ok, <<[kind |-> "help"]>>, FALSE)

\* ls: the entry names of the first argument, or of "."
ls(args, f, c) ==
    LET path == IF args = <<>> THEN c ELSE Resolve(c, args[1])
    IN  IF ~Exists(f, path) THEN Ret(f, c, Io("NotFound"), <<>>, FALSE)
        ELSE IF Node(f, path).kind # "dir" THEN Ret(f, c, Io("NotADirectory"), <<>>, FALSE)
        ELSE Ret(f, c, Ok,
                 <<[kind |-> "ls", val |-> {q[Len(q)] : q \in Entries(f, path)}]>>, FALSE)

\* the loop of cat from argument i on; out is what was printed so far
RECURSIVE catFrom(_, _, _, _, _)
catFrom(args, i, f, c, out) ==
    IF i > Len(args) THEN Ret(f, c, Ok, out, FALSE)
    ELSE LET n == Node(f, Resolve(c, args[i]))
         IN  IF n.kind = "absent" THEN Ret(f, c, Io("NotFound"), out, FALSE)
             ELSE IF n.kind = "dir" THEN Ret(f, c, IsDirectory(args[i]), out, FALSE)
             ELSE IF n.kind = "locked" THEN Ret(f, c, Io("PermissionDenied"), out, FALSE)
             ELSE catFrom(args, i + 1, f, c,
                          Append(out, [kind |-> "content", val |-> n.data]))

\* cat without the is_dir test: reading the directory fails instead
RECURSIVE catFrom_unchecked(_, _, _, _, _)
catFrom_unchecked(args, i, f, c, out) ==
    IF i > Len(args) THEN Ret(f, c, Ok, out, FALSE)
    ELSE LET n == Node(f, Resolve(c, args[i]))
         IN  IF n.kind = "absent" THEN Ret(f, c, Io("NotFound"), out, FALSE)
             ELSE IF n.kind = "dir" THEN Ret(f, c, Io("IsADirectory"), out, FALSE)
             ELSE IF n.kind = "locked" THEN Ret(f, c, Io("PermissionDenied"), out, FALSE)
             ELSE catFrom_unchecked(args, i + 1, f, c,
                                    Append(out, [kind |-> "content", val |-> n.data]))

cat_unchecked(args, f, c) ==
    IF args = <<>> THEN Ret(f, c, MissingArguments("file"), <<>>, FALSE)
    ELSE catFrom_unchecked(args, 1, f, c, <<>>)

cat(args, f, c) ==
    IF args = <<>> THEN Ret(f, c, MissingArguments("file"), <<>>, FALSE)
    ELSE catFrom(args, 1, f, c, <<>>)

RECURSIVE mkdirFrom(_, _, _, _)
mkdirFrom(args, i, f, c) ==
    IF i > Len(args) THEN Ret(f, c, Ok, <<>>, FALSE)
    ELSE LET p == Resolve(c, args[i])
         IN  IF Exists(f, p) THEN Ret(f, c, Io("AlreadyExists"), <<>>, FALSE)
             ELSE IF p \notin Universe THEN Ret(f, c, Ok, <<>>, TRUE)
             ELSE mkdirFrom(args, i + 1, Put(f, p, Dir), c)

\* mkdir that creates nothing unless every name is free
mkdir_all_or_nothing(args, f, c) ==
    IF args = <<>> THEN Ret(f, c, MissingArguments("directory name"), <<>>, FALSE)
    ELSE IF \E i \in 1..Len(args) : Exists(f, Resolve(c, args[i]))
    THEN Ret(f, c, Io("AlreadyExists"), <<>>, FALSE)
    ELSE mkdirFrom(args, 1, f, c)

mkdir(args, f, c) ==
    IF args = <<>> THEN Ret(f, c, MissingArguments("directory name"), <<>>, FALSE)
    ELSE mkdirFrom(args, 1, f, c)

\* File::create: creates or truncates
RECURSIVE touchFrom(_, _, _, _)
touchFrom(args, i, f, c) ==
    IF i > Len(args) THEN Ret(f, c, Ok, <<>>, FALSE)
    ELSE LET p == Resolve(c, args[i])
             n == Node(f, p)
         IN  IF n.kind = "dir" THEN Ret(f, c, Io("IsADirectory"), <<>>, FALSE)
             ELSE IF n.kind = "locked" THEN Ret(f, c, Io("PermissionDenied"), <<>>, FALSE)
             ELSE IF p \notin Universe THEN Ret(f, c, Ok, <<>>, TRUE)
             ELSE touchFrom(args, i + 1, Put(f, p, File("")), c)

touch(args, f, c) ==
    IF args = <<>> THEN Ret(f, c, MissingArguments("file name"), <<>>, FALSE)
    ELSE touchFrom(args, 1, f, c)

Contains(args, tok) == \E j \in 1..Len(args) : args[j] = tok

RECURSIVE rmFrom(_, _, _, _)
rmFrom(args, i, f, c) ==
    IF i > Len(args) THEN Ret(f, c, Ok, <<>>, FALSE)
    ELSE IF args[i] = "-r" THEN rmFrom(args, i + 1, f, c)
    ELSE LET p == Resolve(c, args[i])
             n == Node(f, p)
         IN  IF n.kind = "absent" THEN Ret(f, c, FileNotFound(args[i]), <<>>, FALSE)
             ELSE IF n.kind = "dir"
             THEN IF Contains(args, "-r")
                  THEN rmFrom(args, i + 1, RemoveTree(f, p), c)
                  ELSE IF Entries(f, p) # {}
                       THEN Ret(f, c, Io("DirectoryNotEmpty"), <<>>, FALSE)
                       ELSE rmFrom(args, i + 1, RemoveTree(f, p), c)
             ELSE rmFrom(args, i + 1, RemoveTree(f, p), c)

\* rm that takes "-r" as a flag in first place only
RECURSIVE rmFrom_leading_flag(_, _, _, _)
rmFrom_leading_flag(args, i, f, c) ==
    IF i > Len(args) THEN Ret(f, c, Ok, <<>>, FALSE)
    ELSE IF args[i] = "-r" THEN rmFrom_leading_flag(args, i + 1, f, c)
    ELSE LET p == Resolve(c, args[i])
             n == Node(f, p)
         IN  IF n.kind = "absent" THEN Ret(f, c, FileNotFound(args[i]), <<>>, FALSE)
             ELSE IF n.kind = "dir" /\ args[1] # "-r" /\ Entries(f, p) # {}
             THEN Ret(f, c, Io("DirectoryNotEmpty"), <<>>, FALSE)
             ELSE rmFrom_leading_flag(args, i + 1, RemoveTree(f, p), c)

rm_leading_flag(args, f, c) ==
    IF args = <<>> THEN Ret(f, c, MissingArguments("file or directory"), <<>>, FALSE)
    ELSE rmFrom_leading_flag(args, 1, f, c)

rm(args, f, c) ==
    IF args = <<>> THEN Ret(f, c, MissingArguments("file or directory"), <<>>, FALSE)
    ELSE rmFrom(args, 1, f, c)

\* cp that opens the destination for writing before it looks at the source
cp_create_first(args, f, c) ==
    IF Len(args) < 2 THEN Ret(f, c, MissingArguments("source and destination"), <<>>, FALSE)
    ELSE LET src == Resolve(c, args[1])
             dest == Resolve(c, args[2])
             s == Node(f, src)
             d == Node(f, dest)
             g == IF d.kind \in {"absent", "file"} /\ dest \in Universe
                  THEN Put(f, dest, File("")) ELSE f
         IN  IF s.kind = "absent" THEN Ret(g, c, FileNotFound(args[1]), <<>>, FALSE)
             ELSE IF s.kind = "locked" THEN Ret(g, c, Io("PermissionDenied"), <<>>, FALSE)
             ELSE IF s.kind = "dir" THEN Ret(g, c, Io("InvalidInput"), <<>>, FALSE)
             ELSE IF d.kind = "dir" THEN Ret(f, c, Io("IsADirectory"), <<>>, FALSE)
             ELSE IF d.kind = "locked" THEN Ret(f, c, Io("PermissionDenied"), <<>>, FALSE)
             ELSE IF dest \notin Universe THEN Ret(f, c, Ok, <<>>, TRUE)
             ELSE IF dest = src THEN Ret(Put(f, dest, File("")), c, Ok, <<>>, FALSE)
             ELSE Ret(Put(f, dest, File(s.data)), c, Ok, <<>>, FALSE)

\* fs::copy opens the source (a regular file, readable), then creates or
\* truncates the destination, then copies the bytes
cp(args, f, c) ==
    IF Len(args) < 2 THEN Ret(f, c, MissingArguments("source and destination"), <<>>, FALSE)
    ELSE LET src == Resolve(c, args[1])
             dest == Resolve(c, args[2])
             s == Node(f, src)
             d == Node(f, dest)
         IN  IF s.kind = "absent" THEN Ret(f, c, FileNotFound(args[1]), <<>>, FALSE)
             ELSE IF s.kind = "locked" THEN Ret(f, c, Io("PermissionDenied"), <<>>, FALSE)
             ELSE IF s.kind = "dir" THEN Ret(f, c, Io("InvalidInput"), <<>>, FALSE)
             ELSE IF d.kind = "dir" THEN Ret(f, c, Io("IsADirectory"), <<>>, FALSE)
             ELSE IF d.kind = "locked" THEN Ret(f, c, Io("PermissionDenied"), <<>>, FALSE)
             ELSE IF dest \notin Universe THEN Ret(f, c, Ok, <<>>, TRUE)
             ELSE IF dest = src THEN Ret(Put(f, dest, File("")), c, Ok, <<>>, FALSE)
             ELSE Ret(Put(f, dest, File(s.data)), c, Ok, <<>>, FALSE)

mv(args, f, c) ==
    IF Len(args) < 2 THEN Ret(f, c, MissingArguments("source and destination"), <<>>, FALSE)
    ELSE LET src == Resolve(c, args[1])
             dest == Resolve(c, args[2])
             s == Node(f, src)
             d == Node(f, dest)
         IN  IF s.kind = "absent" THEN Ret(f, c, FileNotFound(args[1]), <<>>, FALSE)
             ELSE IF dest = src THEN Ret(f, c, Ok, <<>>, FALSE)
             ELSE IF s.kind = "dir" /\ d.kind \in {"file", "locked"}
             THEN Ret(f, c, Io("NotADirectory"), <<>>, FALSE)
             ELSE IF s.kind = "dir" /\ d.kind = "dir" /\ Entries(f, dest) # {}
             THEN Ret(f, c, Io("DirectoryNotEmpty"), <<>>, FALSE)
             ELSE IF s.kind # "dir" /\ d.kind = "dir"
             THEN Ret(f, c, Io("IsADirectory"), <<>>, FALSE)
             ELSE IF dest \notin Universe \/ RenameLeaves(f, src, dest)
             THEN Ret(f, c, Ok, <<>>, TRUE)
             ELSE Ret(Rename(f, src, dest), c, Ok, <<>>, FALSE)

\* grep: the matching lines are a function of the pattern and of the file's
\* content; an empty file has no line
grep(args, f, c) ==
    IF Len(args) < 2 THEN Ret(f, c, MissingArguments("pattern and file"), <<>>, FALSE)
    ELSE LET n == Node(f, Resolve(c, args[2]))
         IN  IF n.kind = "absent" THEN Ret(f, c, FileNotFound(args[2]), <<>>, FALSE)
             ELSE IF n.kind = "locked" THEN Ret(f, c, Io("PermissionDenied"), <<>>, FALSE)
             ELSE IF n.kind = "dir" THEN Ret(f, c, Io("IsADirectory"), <<>>, FALSE)
             ELSE Ret(f, c, Ok,
                      IF n.data = "" THEN <<>>
                      ELSE <<[kind |-> "grep", val |-> <<args[1], args[2], n.data>>]>>,
                      FALSE)

pwd(f, c) == Ret(f, c, Ok, <<[kind |-> "pwd", val |-> c]>>, FALSE)

echo(args, f, c) == Ret(f, c, Ok, <<[kind |-> "echo", val |-> args]>>, FALSE)

date(f, c) == Ret(f, c, Ok, <<[kind |-> "date"]>>, FALSE)

\* history: the entries, numbered from 1, or a placeholder
show_history(hist, f, c) ==
    Ret(f, c, Ok,
        IF hist = <<>> THEN <<[kind |-> "nohistory"]>>
        ELSE [i \in 1..Len(hist) |-> [kind |-> "entry", idx |-> i, val |-> hist[i]]],
        FALSE)

execute_command(command, args, f, c, h, hist) ==
    CASE command = "" -> Ret(f, c, Ok, <<>>, FALSE)
      [] command = "exit" -> Ret(f, c, Exit, <<>>, FALSE)
      [] command = "cd" -> cd(args, f, c, h)
      [] command = "help" -> help(f, c)
      [] command = "ls" -> ls(args, f, c)
      [] command = "cat" -> cat(args, f, c)
      [] command = "mkdir" -> mkdir(args, f, c)
      [] command = "touch" -> touch(args, f, c)
      [] command = "rm" -> rm(args, f, c)
      [] command = "cp" -> cp(args, f, c)
      [] command = "mv" -> mv(args, f, c)
      [] command = "grep" -> grep(args, f, c)
      [] command = "pwd" -> pwd(f, c)
      [] command = "echo" -> echo(args, f, c)
      [] command = "date" -> date(f, c)
      [] command = "history" -> show_history(hist, f, c)
      [] OTHER -> Ret(f, c, CommandNotFound(command), <<>>, FALSE)

----------------------------------------------------------------------------
(* Error reporting *)

get_command_usage(command) ==
    CASE command = "cd" -> "cd [directory]"
      [] command = "ls" -> "ls [directory]"
      [] command = "cat" -> "cat <file>"
      [] command = "mkdir" -> "mkdir <directory>"
      [] command = "touch" -> "touch <file>"
      [] command = "cp" -> "cp <source> <destination>"
      [] command = "mv" -> "mv <source> <destination>"
      [] command = "rm" -> "rm <file> [-r for directories]"
      [] command = "grep" -> "grep <pattern> <file>"
      [] OTHER -> ""

Diag(text, arg) == [line |-> "diagnostic", text |-> text, arg |-> arg]
Hint(text, arg) == [line |-> "hint", text |-> text, arg |-> arg]

\* handle_error with the elevation hint on every I/O error
handle_error_io_hint(error, command) ==
    CASE error.kind = "Io" ->
            <<Diag("Error in", command),
              Hint("Try running with elevated privileges", "")>>
      [] error.kind = "InvalidArgument" ->
            <<Diag("Invalid argument:", error.detail),
              Hint("Usage:", get_command_usage(command))>>
      [] error.kind = "MissingArguments" ->
            <<Diag("Missing required argument:", error.detail),
              Hint("Usage:", get_command_usage(command))>>
      [] error.kind = "FileNotFound" ->
            <<Diag("File not found:", error.detail),
              Hint("Check the path and try again", "")>>
      [] error.kind = "IsDirectory" ->
            <<Diag("Is a directory:", error.detail),
              Hint("Did you mean to use a file instead?", "")>>
      [] OTHER -> <<Diag("Command not found:", error.detail)>>

\* the lines handle_error writes to the error stream
handle_error(error, command) ==
    CASE error.kind = "Io" ->
            <<Diag("Error in", command)>>
            \o (IF error.detail = "PermissionDenied"
                THEN <<Hint("Try running with elevated privileges", "")>>
                ELSE <<>>)
      [] error.kind = "InvalidArgument" ->
            <<Diag("Invalid argument:", error.detail),
              Hint("Usage:", get_command_usage(command))>>
      [] error.kind = "MissingArguments" ->
            <<Diag("Missing required argument:", error.detail),
              Hint("Usage:", get_command_usage(command))>>
      [] error.kind = "FileNotFound" ->
            <<Diag("File not found:", error.detail),
              Hint("Check the path and try again", "")>>
      [] error.kind = "IsDirectory" ->
            <<Diag("Is a directory:", error.detail),
              Hint("Did you mean to use a file instead?", "")>>
      [] OTHER -> <<Diag("Command not found:", error.detail)>>

----------------------------------------------------------------------------
(* The line editor (rustyline's Editor<(), FileHistory> with its default   *)
(* configuration).  An input line is the sequence of its pieces: a token   *)
(* or a run of whitespace, WS.                                             *)

WS == " "

NoFile == [exists |-> FALSE, lines |-> <<>>]

\* Editor::add_history_entry with Config::default(): an empty line and a
\* repetition of the newest entry are ignored, the oldest entry is dropped
\* at max_history_size
add_history_entry(hist, line) ==
    IF max_history_size = 0 \/ line = <<>> \/ (hist # <<>> /\ hist[Len(hist)] = line)
    THEN [hist |-> hist, added |-> 0]
    ELSE [hist |-> Append(IF Len(hist) = max_history_size THEN Tail(hist) ELSE hist, line),
          added |-> 1]

RECURSIVE load_from(_, _, _)
load_from(lines, i, hist) ==
    IF i > Len(lines) THEN hist
    ELSE load_from(lines, i + 1, add_history_entry(hist, lines[i]).hist)

\* Editor::load_history: a missing file is an error and loads nothing
load_history(file) == IF file.exists THEN load_from(file.lines, 1, <<>>) ELSE <<>>

\* Editor::save_history: nothing is written unless an entry was added since
\* the load; otherwise the file is rewritten with the whole in-memory history
save_history(file, hist, ne) ==
    IF hist = <<>> \/ ne = 0 THEN file ELSE [exists |-> TRUE, lines |-> hist]

\* parse_input: trim, split on whitespace, first token and the rest
Parts(input) == SelectSeq(input, LAMBDA x : x # WS)

parse_input(input) ==
    LET parts == Parts(input)
    IN  IF parts = <<>> THEN [command |-> "", args |-> <<>>]
        ELSE [command |-> Head(parts), args |-> Tail(parts)]

----------------------------------------------------------------------------
(* The record of the last step of the loop (transient: the input line, the *)
(* tokenized command, the handler's result and what was printed), with the *)
(* state the step started from.                                            *)

Step(type, line, command, args, res, out, err, dispatched) ==
    [type |-> type, line |-> line, command |-> command, args |-> args,
     res |-> res, out |-> out, err |-> err, dispatched |-> dispatched,
     fs0 |-> fs, cwd0 |-> cwd, hist0 |-> history]

NoStep(type) == Step(type, <<>>, "", <<>>, Ok, <<>>, <<>>, FALSE)

\* a main that gives up on an unknown command
after_command_abort(res) ==
    IF res.kind \in {"Exit", "CommandNotFound"} THEN "off" ELSE "prompt"

\* where main goes after execute_command returned res: exit(0) leaves the
\* process at once, everything else goes back to the prompt
after_command(res) == IF res.kind = "Exit" THEN "off" ELSE "prompt"

\* the initial trees
FsA == [q \in Universe |->
          CASE q = <<>> -> Dir
            [] q = <<"d">> -> Dir
            [] q = <<"d", "f">> -> File("x")
            [] q = <<"f">> -> File("x")
            [] OTHER -> Absent]

FsB == [q \in Universe |->
          CASE q = <<>> -> Dir
            [] q = <<"d">> -> Dir
            [] q = <<"f">> -> Locked
            [] q = <<"-r">> -> File("x")
            [] OTHER -> Absent]

----------------------------------------------------------------------------
(* Spec: the whole program *)

\* the lines the user types in Spec
SessionLines ==
    { <<>>,
      <<WS>>,
      <<WS, "echo", WS, "a">>,
      <<"foobar">>,
      <<"cd">>,
      <<"cd", WS, "nonexistent">>,
      <<"rm">>,
      <<"cat", WS, "d">>,
      <<"cat", WS, "f">>,
      <<"mkdir", WS, "d">>,
      <<"history">>,
      <<"exit">> }

Init ==
    /\ fs = FsB
    /\ cwd = Root
    /\ home \in {Root, Unset}
    /\ history = <<>>
    /\ new_entries = 0
    /\ histFile = NoFile
    /\ pc = "off"
    /\ runs = 0
    /\ reads = 0
    /\ entered = <<>>
    /\ last = [type |-> "none", line |-> <<>>, command |-> "", args |-> <<>>,
               res |-> Ok, out |-> <<>>, err |-> <<>>, dispatched |-> FALSE,
               fs0 |-> FsB, cwd0 |-> Root, hist0 |-> <<>>]

\* main up to the loop: the history file is loaded
Start ==
    /\ pc = "off"
    /\ runs < MaxRuns
    /\ runs' = runs + 1
    /\ history' = load_history(histFile)
    /\ new_entries' = 0
    /\ cwd' = Root
    /\ pc' = "prompt"
    /\ entered' = Append(entered, <<>>)
    /\ last' = NoStep("start")
    /\ UNCHANGED <<fs, home, histFile, reads>>

\* one turn of the loop on Ok(input)
ReadLine(input) ==
    /\ pc = "prompt"
    /\ reads < MaxReads
    /\ reads' = reads + 1
    /\ IF input = <<>>
       THEN /\ last' = Step("line", input, "", <<>>, Ok, <<>>, <<>>, FALSE)
            /\ UNCHANGED <<fs, cwd, home, history, new_entries, histFile, pc, runs, entered>>
       ELSE LET h1 == add_history_entry(history, input)
                p == parse_input(input)
                r == execute_command(p.command, p.args, fs, cwd, home, h1.hist)
                \* exit(0): the process is gone at once, its memory with it
                gone == after_command(r.res) = "off"
            IN  /\ ~r.oob
                /\ history' = IF gone THEN <<>> ELSE h1.hist
                /\ new_entries' = IF gone THEN 0
                                  ELSE IF new_entries + h1.added > Len(h1.hist)
                                  THEN Len(h1.hist) ELSE new_entries + h1.added
                /\ fs' = r.fs
                /\ cwd' = r.cwd
                /\ pc' = after_command(r.res)
                /\ entered' = [entered EXCEPT ![Len(entered)] = Append(@, input)]
                /\ last' = Step("line", input, p.command, p.args, r.res, r.out,
                                IF IsErr(r.res) THEN handle_error(r.res, p.command) ELSE <<>>,
                                TRUE)
                /\ UNCHANGED <<home, histFile, runs>>

\* Err(ReadlineError::Interrupted): "^C" is printed and the loop continues
ReadInterrupted ==
    /\ pc = "prompt"
    /\ last' = NoStep("interrupted")
    /\ UNCHANGED <<fs, cwd, home, history, new_entries, histFile, pc, runs, reads, entered>>

\* the loop is left, the history is saved and main returns: the process and
\* its in-memory history are gone
Shutdown(type) ==
    /\ pc = "prompt"
    /\ pc' = "off"
    /\ histFile' = save_history(histFile, history, new_entries)
    /\ history' = <<>>
    /\ new_entries' = 0
    /\ last' = NoStep(type)
    /\ UNCHANGED <<fs, cwd, home, runs, reads, entered>>

\* Err(ReadlineError::Eof)
ReadEof == Shutdown("eof")

\* any other ReadlineError
ReadError == Shutdown("readline error")

Next ==
    \/ Start
    \/ \E input \in SessionLines : ReadLine(input)
    \/ ReadInterrupted
    \/ ReadEof
    \/ ReadError

Spec == Init /\ [][Next]_vars

----------------------------------------------------------------------------
(* SpecCmd: execute_command and handle_error on every command and argument *)
(* list, from either initial tree                                          *)

RECURSIVE SeqsUpTo(_, _)
SeqsUpTo(S, n) ==
    IF n = 0 THEN {<<>>}
    ELSE LET shorter == SeqsUpTo(S, n - 1)
         IN  shorter \cup {Append(a, t) : a \in shorter, t \in S}

ArgLists == SeqsUpTo(Tokens, MaxArgs)

\* the commands whose handler reads its arguments
ArgCommands == {"cd", "ls", "cat", "mkdir", "touch", "rm", "cp", "mv", "grep"}

\* the commands that take none or only print theirs, the empty command and an
\* unknown one
PlainCommands == {"echo", "help", "pwd", "date", "history", "exit", "", "foobar"}

InitCmd ==
    /\ \E seed \in {<<FsA, Root>>, <<FsB, Root>>, <<FsB, Unset>>} :
          fs = seed[1] /\ home = seed[2]
    /\ cwd = Root
    /\ history = <<>>
    /\ new_entries = 0
    /\ histFile = NoFile
    /\ pc = "prompt"
    /\ runs = 1
    /\ reads = 0
    /\ entered = <<>>
    /\ last = [type |-> "none", line |-> <<>>, command |-> "", args |-> <<>>,
               res |-> Ok, out |-> <<>>, err |-> <<>>, dispatched |-> FALSE,
               fs0 |-> fs, cwd0 |-> Root, hist0 |-> <<>>]

\* lines 64-66 of main: the command is executed and a failure is reported
Call(command, args) ==
    /\ pc = "prompt"
    /\ LET r == execute_command(command, args, fs, cwd, home, history)
       IN  /\ ~r.oob
           /\ fs' = r.fs
           /\ cwd' = r.cwd
           /\ pc' = IF after_command(r.res) = "off" THEN "off" ELSE "returned"
           /\ last' = Step("call", <<>>, command, args, r.res, r.out,
                           IF IsErr(r.res) THEN handle_error(r.res, command) ELSE <<>>,
                           TRUE)
    /\ UNCHANGED <<home, history, new_entries, histFile, runs, reads, entered>>

\* the tokenized command and the result are dropped; the loop is at its top
Return ==
    /\ pc = "returned"
    /\ pc' = "prompt"
    /\ last' = [type |-> "none", line |-> <<>>, command |-> "", args |-> <<>>,
                res |-> Ok, out |-> <<>>, err |-> <<>>, dispatched |-> FALSE,
                fs0 |-> fs, cwd0 |-> cwd, hist0 |-> history]
    /\ UNCHANGED <<fs, cwd, home, history, new_entries, histFile, runs, reads, entered>>

NextCmd ==
    \/ \E command \in ArgCommands, args \in ArgLists : Call(command, args)
    \/ \E command \in PlainCommands, args \in SeqsUpTo(Tokens, 1) : Call(command, args)
    \/ Return

SpecCmd == InitCmd /\ [][NextCmd]_vars

----------------------------------------------------------------------------
(* Claims about the whole program (Spec) *)

\* the lines the last `history` command listed, in order
Listed == [i \in 1..Len(last.out) |-> last.out[i].val]

RanHistory ==
    /\ pc = "prompt"
    /\ last.type = "line"
    /\ last.command = "history"

\* every line of prev occurs in listed before every line of cur
ListedInRunOrder(listed, prev, cur) ==
    \E k \in 0..Len(listed) :
        /\ \A i \in 1..Len(prev) : \E j \in 1..k : listed[j] = prev[i]
        /\ \A i \in 1..Len(cur) : \E j \in (k + 1)..Len(listed) : listed[j] = cur[i]

\* C1: when a run has ended (by exit or by end-of-input) and the next run
\* lists its history, every line entered in the earlier run is listed, before
\* every line entered in the later run.
C1_HistorySurvivesRun ==
    (RanHistory /\ runs >= 2) =>
        ListedInRunOrder(Listed, entered[runs - 1], entered[runs])

\* a run the reader ended (end-of-input, or a readline error), as opposed to one
\* that ended in exit
EndedByReader(r) ==
    entered[r] = <<>> \/ parse_input(entered[r][Len(entered[r])]).command # "exit"

\* C1, the part the code keeps: a run that ended at the reader saved its
\* history, and the next run lists every line of it
C1_SavedAtEndOfInput ==
    (RanHistory /\ runs >= 2 /\ EndedByReader(runs - 1)) =>
        \A i \in 1..Len(entered[runs - 1]) :
            \E j \in 1..Len(Listed) : Listed[j] = entered[runs - 1][i]

Failed == last.type = "line" /\ IsErr(last.res)

\* C2 as stated: after a failing command or an interrupted read the loop is
\* back at the prompt, and the process has ended only by exit or end-of-input.
C2_OnlyExitOrEofEnds ==
    /\ Failed => (pc = "prompt" /\ last.err # <<>>)
    /\ last.type = "interrupted" => pc = "prompt"
    /\ (pc = "off" /\ runs > 0) =>
          \/ last.type = "eof"
          \/ last.type = "line" /\ last.command = "exit"

\* C2 as amended: after a failing command or an interrupted read the loop is
\* back at the prompt with the failure reported, and the process has ended
\* only by exit, by end-of-input or by a readline error other than an
\* interruption.
C2_LoopContinues ==
    /\ Failed => (pc = "prompt" /\ last.err # <<>>)
    /\ last.type = "interrupted" => pc = "prompt"
    /\ (pc = "off" /\ runs > 0) =>
          \/ last.type \in {"eof", "readline error"}
          \/ last.type = "line" /\ last.command = "exit"

\* C2: an unknown command was reported and the loop is ready to read on
C2_Witness ==
    /\ Failed
    /\ last.res.kind = "CommandNotFound"
    /\ last.err # <<>>
    /\ pc = "prompt"
    /\ reads < MaxReads

\* C5: a non-empty line that was read is the newest entry of the history,
\* behind everything that was there, when its command is dispatched; an empty
\* line and an interrupted read add nothing and dispatch nothing.
C5_EveryLineAppended ==
    /\ (pc = "prompt" /\ last.type = "line" /\ last.line # <<>>) =>
          /\ history = Append(last.hist0, last.line)
          /\ last.dispatched
    /\ (last.type = "interrupted" \/ (last.type = "line" /\ last.line = <<>>)) =>
          /\ history = last.hist0
          /\ ~last.dispatched

\* C5, the part the code keeps: nothing is reordered or dropped, and a line
\* that differs from the newest entry is appended
C5_AppendedUnlessRepeated ==
    (pc = "prompt" /\ last.type = "line" /\ last.line # <<>>) =>
        history = IF last.hist0 # <<>> /\ last.hist0[Len(last.hist0)] = last.line
                  THEN last.hist0
                  ELSE Append(last.hist0, last.line)

TwoLines(err) ==
    /\ Len(err) = 2
    /\ err[1].line = "diagnostic"
    /\ err[2].line = "hint"

\* C6 as stated: every failure is reported as one diagnostic line followed by
\* one hint line, and the loop is at the prompt afterwards.
C6_DiagnosticAndHint ==
    Failed => (TwoLines(last.err) /\ pc = "prompt")

\* the failures that come with a hint
Hinted(res) ==
    \/ res.kind \in {"InvalidArgument", "MissingArguments", "FileNotFound", "IsDirectory"}
    \/ res.kind = "Io" /\ res.detail = "PermissionDenied"

\* C6 as amended: InvalidArgument, MissingArguments, FileNotFound, IsDirectory
\* and a permission-denied I/O error are reported as one diagnostic line
\* followed by one hint line; CommandNotFound and every other I/O error as one
\* diagnostic line alone; the loop is at the prompt afterwards.
C6_ReportLines ==
    Failed =>
        /\ pc = "prompt"
        /\ IF Hinted(last.res) THEN TwoLines(last.err)
           ELSE Len(last.err) = 1 /\ last.err[1].line = "diagnostic"

\* C6: a permission-denied I/O error was reported in two lines
C6_Witness ==
    /\ Failed
    /\ last.res = Io("PermissionDenied")
    /\ TwoLines(last.err)
    /\ pc = "prompt"

----------------------------------------------------------------------------
(* Claims about the commands (SpecCmd) *)

Called(command) == last.type = "call" /\ last.command = command

\* the path argument i named when the command started
P0(i) == Resolve(last.cwd0, last.args[i])

N0(i) == Node(last.fs0, P0(i))

Repeats(i) == \E j \in 1..(i - 1) : last.args[j] = last.args[i]

\* C3: rm with no argument other than "-r" fails with MissingArguments and
\* deletes nothing.
C3_RmWithoutTargets ==
    (Called("rm") /\ \A i \in 1..Len(last.args) : last.args[i] = "-r") =>
        /\ last.res.kind = "MissingArguments"
        /\ fs = last.fs0

\* C8: the working directory changes only through a successful cd; cd to a path
\* that does not exist fails with FileNotFound; no failing cd and no other
\* command changes the working directory.
C8_CwdOnlyByCd ==
    last.type = "call" =>
        /\ cwd # last.cwd0 => (last.command = "cd" /\ last.res = Ok)
        /\ (last.command = "cd" /\ last.args # <<>> /\ N0(1).kind = "absent") =>
              (last.res = FileNotFound(last.args[1]) /\ cwd = last.cwd0)

\* C8: cd to a missing path failed inside directory d and left the shell there
C8_Witness ==
    /\ Called("cd")
    /\ last.args # <<>>
    /\ N0(1).kind = "absent"
    /\ last.res.kind = "FileNotFound"
    /\ last.cwd0 = <<"d">>
    /\ cwd = <<"d">>

\* C9: cp with fewer than two arguments fails with MissingArguments, cp from a
\* source that does not exist fails with FileNotFound, and either way the
\* filesystem is as it was (the destination neither created nor truncated).
C9_CpFailuresChangeNothing ==
    Called("cp") =>
        /\ Len(last.args) < 2 =>
              (last.res.kind = "MissingArguments" /\ fs = last.fs0)
        /\ (Len(last.args) >= 2 /\ N0(1).kind = "absent") =>
              (last.res = FileNotFound(last.args[1]) /\ fs = last.fs0)

\* C9: cp from a missing source failed and its destination still holds "x"
C9_Witness ==
    /\ Called("cp")
    /\ Len(last.args) >= 2
    /\ N0(1).kind = "absent"
    /\ N0(2) = File("x")
    /\ Node(fs, P0(2)) = File("x")
    /\ last.res.kind = "FileNotFound"

\* the first argument of cat that is not a regular file open to reading
Unreadable(i) == N0(i).kind # "file"

FirstUnreadable(k) ==
    /\ k \in 1..Len(last.args)
    /\ Unreadable(k)
    /\ \A j \in 1..(k - 1) : ~Unreadable(j)

NothingPrinted == \A j \in 1..Len(last.out) : last.out[j].val = ""

\* C7 as stated: cat with a directory among its arguments fails with
\* IsDirectory and prints no file content.
C7_CatDirectoryPrintsNothing ==
    (Called("cat") /\ \E i \in 1..Len(last.args) : N0(i).kind = "dir") =>
        /\ last.res.kind = "IsDirectory"
        /\ NothingPrinted

\* C7 as amended: cat fails with IsDirectory when the first of its arguments
\* that is not a readable regular file is a directory; it has then printed the
\* contents of the arguments before that one, in order, and nothing else
\* (nothing at all when the directory comes first).
C7_CatStopsAtDirectory ==
    Called("cat") =>
        \A k \in 1..Len(last.args) :
            (FirstUnreadable(k) /\ N0(k).kind = "dir") =>
                /\ last.res = IsDirectory(last.args[k])
                /\ Len(last.out) = k - 1
                /\ \A j \in 1..(k - 1) : last.out[j].val = N0(j).data

\* C7: cat printed a file, then failed on the directory that followed it
C7_Witness ==
    /\ Called("cat")
    /\ Len(last.args) = 3
    /\ FirstUnreadable(2)
    /\ N0(2).kind = "dir"
    /\ N0(1).data = "x"
    /\ last.res.kind = "IsDirectory"
    /\ ~NothingPrinted

\* argument i of the last command makes it fail, given the tree it started
\* from and the arguments before it (a name handled once is gone, or taken,
\* the second time)
MkdirFails(i) == N0(i).kind # "absent" \/ Repeats(i)

TouchFails(i) == N0(i).kind \in {"dir", "locked"}

RmFails(i) ==
    /\ last.args[i] # "-r"
    /\ \/ N0(i).kind = "absent"
       \/ Repeats(i)
       \/ /\ N0(i).kind = "dir"
          /\ ~Contains(last.args, "-r")
          /\ Entries(last.fs0, P0(i)) # {}

FailsAt(i) ==
    CASE last.command = "mkdir" -> MkdirFails(i)
      [] last.command = "touch" -> TouchFails(i)
      [] last.command = "rm" -> RmFails(i)
      [] OTHER -> FALSE

\* the arguments handled before the first failing one
Handled == {i \in 1..Len(last.args) : \A j \in 1..i : ~FailsAt(j)}

FirstFailing(k) ==
    /\ k \in 1..Len(last.args)
    /\ FailsAt(k)
    /\ \A j \in 1..(k - 1) : ~FailsAt(j)

\* the error the failing argument k gives
ErrorAt(k) ==
    CASE last.command = "mkdir" -> Io("AlreadyExists")
      [] last.command = "touch" ->
            IF N0(k).kind = "dir" THEN Io("IsADirectory") ELSE Io("PermissionDenied")
      [] last.command = "rm" ->
            IF N0(k).kind = "absent" \/ Repeats(k) THEN FileNotFound(last.args[k])
            ELSE Io("DirectoryNotEmpty")

\* the tree after the handled arguments took effect and nothing else did
EffectOfHandled ==
    [q \in Universe |->
        CASE last.command = "mkdir" /\ (\E i \in Handled : q = P0(i)) -> Dir
          [] last.command = "touch" /\ (\E i \in Handled : q = P0(i)) -> File("")
          [] last.command = "rm" /\ (\E i \in Handled : last.args[i] # "-r" /\ IsPrefix(P0(i), q))
                -> Absent
          [] OTHER -> last.fs0[q]]

\* C10: rm, mkdir and touch handle their arguments from left to right and stop
\* at the first one that fails, with that argument's error; what was done for
\* the arguments before it stays done and nothing after it is touched.
C10_StopAtFirstFailure ==
    (last.type = "call" /\ last.command \in {"rm", "mkdir", "touch"} /\ last.args # <<>>) =>
        /\ fs = EffectOfHandled
        /\ \A k \in 1..Len(last.args) : FirstFailing(k) => last.res = ErrorAt(k)
        /\ (\A k \in 1..Len(last.args) : ~FailsAt(k)) => last.res = Ok

\* C10: rm removed its first target, failed on the second and left the third
C10_Witness ==
    /\ Called("rm")
    /\ Len(last.args) = 3
    /\ FirstFailing(2)
    /\ last.res = ErrorAt(2)
    /\ N0(1).kind # "absent"
    /\ Node(fs, P0(1)).kind = "absent"
    /\ last.args[3] \notin {last.args[1], "-r"}
    /\ Node(fs, P0(3)).kind # "absent"

\* the target i of rm is reached: no argument before it failed, and it is
\* there
Reached(i) ==
    /\ last.args[i] # "-r"
    /\ \A j \in 1..i : ~RmFails(j)

Below(p) == {q \in Universe : IsPrefix(p, q)}

\* C4: rm never takes "-r" for a path; with "-r" anywhere among the arguments
\* a directory it gets to is removed with everything in it; without "-r" an
\* empty directory is removed and a non-empty one fails with an I/O error and
\* stays, contents included.
C4_RmDirectoryPolicy ==
    (Called("rm") /\ last.args # <<>>) =>
        /\ \A q \in Below(Resolve(last.cwd0, "-r")) : fs[q] = last.fs0[q]
        /\ last.res # FileNotFound("-r")
        /\ \A i \in 1..Len(last.args) :
              (Reached(i) /\ N0(i).kind = "dir") =>
                  \A q \in Below(P0(i)) : fs[q] = Absent
        /\ \A i \in 1..Len(last.args) :
              (/\ last.args[i] # "-r"
               /\ ~Contains(last.args, "-r")
               /\ \A j \in 1..(i - 1) : ~RmFails(j)
               /\ ~Repeats(i)
               /\ N0(i).kind = "dir"
               /\ Entries(last.fs0, P0(i)) # {}) =>
                  /\ last.res = Io("DirectoryNotEmpty")
                  /\ \A q \in Below(P0(i)) : fs[q] = last.fs0[q]

\* C4: a non-empty directory went, with its content, on "-r" given after it
C4_Witness ==
    /\ Called("rm")
    /\ Len(last.args) = 2
    /\ last.args[2] = "-r"
    /\ N0(1).kind = "dir"
    /\ Entries(last.fs0, P0(1)) # {}
    /\ \A q \in Below(P0(1)) : fs[q] = Absent
    /\ last.res = Ok

====
